---- MODULE Spec2Model ----
(***************************************************************************)
(* Model of backend/app.py: a FastAPI relay that keeps per-conversation    *)
(* message histories in the process-wide dictionary `conversations` and    *)
(* forwards every accepted message to the Groq completion API.             *)
(*                                                                         *)
(* Scheduling.  `chat` is an `async def` endpoint whose body contains no   *)
(* `await`: the event loop runs it from its first line to its return or    *)
(* raise without switching to another request (the Groq client call is a   *)
(* synchronous call that blocks the loop).  Requests therefore overlap     *)
(* only outside the handler body (sent, received, validated, answered);    *)
(* the handler's own steps are visible below but are never interleaved     *)
(* with another handler's steps (InHandler).                               *)
(***************************************************************************)
EXTENDS Integers, Sequences, FiniteSets, TLC

\* Total number of HTTP requests sent during one run.
MaxRequests == 2

\* Client connections; each carries at most one request at a time.
Requests == {1, 2}

\* conversation_id values the clients use.
Keys == {"a", "b"}

\* Message texts the clients use.
Messages == {"hi", "yo"}

\* Caller-supplied role values (the field may also be left out).
Roles == {"system"}

\* Failure descriptions of the completion collaborator, str(e).
Errors == {"Connection error.", "quota"}

\* A streamed chunk's delta.content: a string, or None.
Text(s) == [none |-> FALSE, content |-> s]
None == [none |-> TRUE, content |-> ""]

\* The chunk sequences the collaborator may stream for one completion.
Streams ==
    { <<>>,
      <<Text("Hel"), Text("lo"), Text(" there")>>,
      <<Text("lo"), None, Text("Hel")>> }

(***************************************************************************)
(* Request bodies (JSON objects): a function from the fields present to    *)
(* their JSON values, a string or null.                                    *)
(***************************************************************************)
Str(s) == [type |-> "string", val |-> s]
Null == [type |-> "null", val |-> "null"]

Bodies ==
    { [message |-> Str(m), conversation_id |-> Str(k)] :
          m \in Messages, k \in Keys }
    \cup { [message |-> Str("hi"), role |-> Str(ro), conversation_id |-> Str(k)] :
               ro \in Roles, k \in Keys }
    \cup { [message |-> Str("hi")],
           [conversation_id |-> Str("a")],
           [message |-> Null, role |-> Str("system"),
            conversation_id |-> Str("b")] }

(***************************************************************************)
(* class UserInput(BaseModel)                                              *)
(***************************************************************************)
\* Marks a field that has no default (a required field).
Undefined == "PydanticUndefined"

\* message: str, role: str = "user", conversation_id: str
UserInput ==
    [message |-> Undefined, role |-> "user", conversation_id |-> Undefined]

\* The validation errors of a body: a missing required field, or a field
\* that is not a string.
ValidationErrors(b) ==
    { <<f, "missing">> :
          f \in { g \in DOMAIN UserInput :
                      g \notin DOMAIN b /\ UserInput[g] = Undefined } }
    \cup { <<f, "string_type">> :
               f \in { g \in DOMAIN UserInput \cap DOMAIN b :
                           b[g].type # "string" } }

\* Variant: conversation_id is treated as an optional field.
ValidBodyIdOptional(b) ==
    ValidationErrors(b) \subseteq {<<"conversation_id", "missing">>}

ValidBody(b) == ValidationErrors(b) = {}

\* The validated model: the fields given, the defaults for the others.
ParseInput(b) ==
    [f \in DOMAIN UserInput |->
        IF f \in DOMAIN b THEN b[f].val ELSE UserInput[f]]

(***************************************************************************)
(* class Conversation, and the dictionary of conversations                 *)
(***************************************************************************)
SystemPrompt == [role |-> "system", content |-> "You are a useful AI assistant."]

\* Variant: a conversation that starts closed.
ConversationInactive == [messages |-> <<SystemPrompt>>, active |-> FALSE]

\* Conversation.__init__
Conversation == [messages |-> <<SystemPrompt>>, active |-> TRUE]

\* Variant: a new Conversation is stored on every call, hit or miss.
always_create_conversation(convs, conversation_id) ==
    [k \in DOMAIN convs \cup {conversation_id} |->
        IF k = conversation_id THEN Conversation ELSE convs[k]]

\* Variant: on a miss the dictionary is rebuilt with the new key alone.
get_or_reset_conversations(convs, conversation_id) ==
    IF conversation_id \notin DOMAIN convs
    THEN [k \in {conversation_id} |-> Conversation]
    ELSE convs

\* get_or_create_conversation: the dictionary after the call.
get_or_create_conversation(convs, conversation_id) ==
    IF conversation_id \notin DOMAIN convs
    THEN [k \in DOMAIN convs \cup {conversation_id} |->
             IF k = conversation_id THEN Conversation ELSE convs[k]]
    ELSE convs

\* Variant: `messages` is one list shared by every Conversation.
AppendMessageShared(convs, k, m) ==
    [j \in DOMAIN convs |-> [convs[j] EXCEPT !.messages = Append(@, m)]]

\* Variant: messages.insert(0, m).
InsertMessageFront(convs, k, m) ==
    [convs EXCEPT ![k].messages = <<m>> \o @]

\* Variant: the history is capped; the oldest entry after the system prompt
\* is dropped once three entries are stored.
AppendMessageCapped(convs, k, m) ==
    [convs EXCEPT ![k].messages =
         Append(IF Len(@) >= 3 THEN <<@[1]>> \o SubSeq(@, 3, Len(@)) ELSE @, m)]

\* conversation.messages.append(m) on the conversation stored under k.
AppendMessage(convs, k, m) ==
    [convs EXCEPT ![k].messages = Append(@, m)]

(***************************************************************************)
(* query_groq_api and the error conversions                                *)
(***************************************************************************)
\* Variant: response = (chunk... or "") + response.
AccumulateFront(resp, chunk) ==
    (IF chunk.none THEN "" ELSE chunk.content) \o resp

\* response += chunk.choices[0].delta.content or ""
Accumulate(resp, chunk) ==
    resp \o (IF chunk.none THEN "" ELSE chunk.content)

\* raise HTTPException(status_code=500, detail=f"Error with Groq API: {str(e)}")
GroqError(e) == [status_code |-> 500, detail |-> "Error with Groq API: " \o e]

\* str() of an HTTPException: "<status_code>: <detail>".
StrHTTPException(x) == ToString(x.status_code) \o ": " \o x.detail

\* chat's `except Exception as e`: HTTPException(status_code=500, detail=str(e))
UnexpectedError(x) == [status |-> 500, detail |-> StrHTTPException(x)]

\* The closed-session error raised before the try block.
SessionEnded ==
    [status |-> 400,
     detail |-> "The chat session has ended. Please start a new session."]

\* The framework's answer to a body that fails validation.
ValidationFailed(b) == [status |-> 422, detail |-> ValidationErrors(b)]

\* Variant: the submitted message is returned as the response.
ChatResponseEcho(resp, inp) ==
    [status |-> 200,
     body |-> [response |-> inp.message, conversation_id |-> inp.conversation_id]]

\* The dictionary chat returns.
ChatResponse(resp, inp) ==
    [status |-> 200,
     body |-> [response |-> resp, conversation_id |-> inp.conversation_id]]

(***************************************************************************)
(* State                                                                   *)
(***************************************************************************)
VARIABLES
    conversations,  \* the dictionary conversation_id -> Conversation
    pc,             \* where each connection's request is
    body,           \* the request body each connection sent
    input,          \* chat's parameter: the validated UserInput
    completion,     \* query_groq_api: the chunks still to come
    response,       \* query_groq_api: the text accumulated so far
    http,           \* the HTTP response each connection received
    sent,           \* number of requests sent so far
    \* history variables
    frags,          \* the chunks the collaborator has delivered to this request
    context,        \* the messages handed to the collaborator by this request
    ncalls,         \* collaborator invocations made for this request
    calls,          \* collaborator invocations made so far, all requests
    last,           \* the latest handler execution: request, body, input and
                    \* the dictionary before it began
    log             \* the handler executions that have ended, in order

vars == <<conversations, pc, body, input, completion, response, http, sent,
          frags, context, ncalls, calls, last, log>>

locals == <<completion, response, frags, context>>

NoBody == [none |-> Null]
NoInput == [message |-> "", role |-> "", conversation_id |-> ""]
NoResponse == [status |-> 0]
NoLast ==
    [req |-> 0, body |-> NoBody, input |-> NoInput,
     pre |-> [k \in {} |-> Conversation]]

\* The request, if any, whose handler body the event loop is running.
InHandler == { r \in Requests : pc[r] \in {"append", "create", "stream"} }

Init ==
    /\ conversations = [k \in {} |-> Conversation]
    /\ pc = [r \in Requests |-> "idle"]
    /\ body = [r \in Requests |-> NoBody]
    /\ input = [r \in Requests |-> NoInput]
    /\ completion = [r \in Requests |-> <<>>]
    /\ response = [r \in Requests |-> ""]
    /\ http = [r \in Requests |-> NoResponse]
    /\ sent = 0
    /\ frags = [r \in Requests |-> <<>>]
    /\ context = [r \in Requests |-> <<>>]
    /\ ncalls = [r \in Requests |-> 0]
    /\ calls = 0
    /\ last = NoLast
    /\ log = <<>>

\* An entry of the log: the request, how its handler ended, the chunks a
\* completed stream delivered, a failure's description, and the answer.
Ended(r, outcome, error, answer) ==
    [body |-> body[r], input |-> input[r], outcome |-> outcome,
     frags |-> IF outcome = "ok" THEN frags[r] ELSE <<>>, error |-> error,
     http |-> answer]

\* The function's locals after it has returned or raised.
Return(r) ==
    /\ completion' = [completion EXCEPT ![r] = <<>>]
    /\ response' = [response EXCEPT ![r] = ""]
    /\ frags' = [frags EXCEPT ![r] = <<>>]
    /\ context' = [context EXCEPT ![r] = <<>>]

(***************************************************************************)
(* Actions                                                                 *)
(***************************************************************************)
\* A client posts a body to /chat/ on a free connection.
Send(r, b) ==
    /\ pc[r] \in {"idle", "done"}
    /\ sent < MaxRequests
    /\ sent' = sent + 1
    /\ pc' = [pc EXCEPT ![r] = "received"]
    /\ body' = [body EXCEPT ![r] = b]
    /\ input' = [input EXCEPT ![r] = NoInput]
    /\ http' = [http EXCEPT ![r] = NoResponse]
    /\ ncalls' = [ncalls EXCEPT ![r] = 0]
    /\ UNCHANGED calls
    /\ UNCHANGED <<conversations, locals, last, log>>

\* The framework builds chat's UserInput from the body, or answers 422.
Validate(r) ==
    /\ pc[r] = "received"
    /\ IF ValidBody(body[r])
       THEN /\ input' = [input EXCEPT ![r] = ParseInput(body[r])]
            /\ pc' = [pc EXCEPT ![r] = "validated"]
            /\ UNCHANGED http
       ELSE /\ http' = [http EXCEPT ![r] = ValidationFailed(body[r])]
            /\ pc' = [pc EXCEPT ![r] = "done"]
            /\ UNCHANGED input
    /\ UNCHANGED <<conversations, body, sent, locals, ncalls, calls, last, log>>

\* Variant: the active check sits inside the try block, so its HTTPException
\* is caught by `except Exception` and answered as a 500.
ChatBeginCheckInTry(r) ==
    /\ pc[r] = "validated"
    /\ InHandler = {}
    /\ last' = [req |-> r, body |-> body[r], input |-> input[r],
                pre |-> conversations]
    /\ conversations' =
           get_or_create_conversation(conversations, input[r].conversation_id)
    /\ IF ~conversations'[input[r].conversation_id].active
       THEN LET raised == [status_code |-> SessionEnded.status,
                           detail |-> SessionEnded.detail]
            IN /\ http' = [http EXCEPT ![r] = UnexpectedError(raised)]
               /\ pc' = [pc EXCEPT ![r] = "done"]
               /\ log' = Append(log, Ended(r, "closed", "",
                                           UnexpectedError(raised)))
       ELSE /\ pc' = [pc EXCEPT ![r] = "append"]
            /\ UNCHANGED <<http, log>>
    /\ UNCHANGED <<body, input, sent, locals, ncalls, calls>>

\* Variant: the handler gives up the event loop at the upstream call (an
\* awaited client), so another request's handler may begin meanwhile.
ChatBeginSuspending(r) ==
    /\ pc[r] = "validated"
    /\ \A q \in InHandler : pc[q] \in {"create", "stream"}
    /\ last' = [req |-> r, body |-> body[r], input |-> input[r],
                pre |-> conversations]
    /\ conversations' =
           get_or_create_conversation(conversations, input[r].conversation_id)
    /\ IF ~conversations'[input[r].conversation_id].active
       THEN /\ http' = [http EXCEPT ![r] = SessionEnded]
            /\ pc' = [pc EXCEPT ![r] = "done"]
            /\ log' = Append(log, Ended(r, "closed", "", SessionEnded))
       ELSE /\ pc' = [pc EXCEPT ![r] = "append"]
            /\ UNCHANGED <<http, log>>
    /\ UNCHANGED <<body, input, sent, locals, ncalls, calls>>

\* chat, up to the try block: get_or_create_conversation and the active check.
ChatBegin(r) ==
    /\ pc[r] = "validated"
    /\ InHandler = {}
    /\ last' = [req |-> r, body |-> body[r], input |-> input[r],
                pre |-> conversations]
    /\ conversations' =
           get_or_create_conversation(conversations, input[r].conversation_id)
    /\ IF ~conversations'[input[r].conversation_id].active
       THEN /\ http' = [http EXCEPT ![r] = SessionEnded]
            /\ pc' = [pc EXCEPT ![r] = "done"]
            /\ log' = Append(log, Ended(r, "closed", "", SessionEnded))
       ELSE /\ pc' = [pc EXCEPT ![r] = "append"]
            /\ UNCHANGED <<http, log>>
    /\ UNCHANGED <<body, input, sent, locals, ncalls, calls>>

\* chat step 1: append the submitted message.
AppendUser(r) ==
    /\ pc[r] = "append"
    /\ conversations' =
           AppendMessage(conversations, input[r].conversation_id,
                         [role |-> input[r].role, content |-> input[r].message])
    /\ pc' = [pc EXCEPT ![r] = "create"]
    /\ UNCHANGED <<body, input, http, sent, locals, ncalls, calls, last, log>>

\* Variant: only the newest message is sent, messages=[conversation.messages[-1]].
CreateCompletionLastOnly(r, s) ==
    /\ pc[r] = "create"
    /\ ncalls' = [ncalls EXCEPT ![r] = @ + 1]
    /\ calls' = calls + 1
    /\ context' = [context EXCEPT ![r] =
                       LET ms == conversations[input[r].conversation_id].messages
                       IN << ms[Len(ms)] >>]
    /\ completion' = [completion EXCEPT ![r] = s]
    /\ response' = [response EXCEPT ![r] = ""]
    /\ pc' = [pc EXCEPT ![r] = "stream"]
    /\ UNCHANGED <<conversations, body, input, http, sent, frags, last, log>>

\* query_groq_api: client.chat.completions.create(...) returns a stream.
CreateCompletion(r, s) ==
    /\ pc[r] = "create"
    /\ ncalls' = [ncalls EXCEPT ![r] = @ + 1]
    /\ calls' = calls + 1
    /\ context' = [context EXCEPT ![r] =
                       conversations[input[r].conversation_id].messages]
    /\ completion' = [completion EXCEPT ![r] = s]
    /\ response' = [response EXCEPT ![r] = ""]
    /\ pc' = [pc EXCEPT ![r] = "stream"]
    /\ UNCHANGED <<conversations, body, input, http, sent, frags, last, log>>

\* Variant: the submitted message is taken back when the call fails.
CreateFailsRollback(r, e) ==
    /\ pc[r] = "create"
    /\ ncalls' = [ncalls EXCEPT ![r] = @ + 1]
    /\ calls' = calls + 1
    /\ conversations' =
           [conversations EXCEPT ![input[r].conversation_id].messages =
                SubSeq(@, 1, Len(@) - 1)]
    /\ http' = [http EXCEPT ![r] = UnexpectedError(GroqError(e))]
    /\ pc' = [pc EXCEPT ![r] = "done"]
    /\ log' = Append(log, Ended(r, "upstream", e, UnexpectedError(GroqError(e))))
    /\ Return(r)
    /\ UNCHANGED <<body, input, sent, last>>

\* Variant: a session whose first message fails is deleted again.
CreateFailsDropsNew(r, e) ==
    /\ pc[r] = "create"
    /\ ncalls' = [ncalls EXCEPT ![r] = @ + 1]
    /\ calls' = calls + 1
    /\ conversations' =
           IF Len(conversations[input[r].conversation_id].messages) = 2
           THEN [k \in DOMAIN conversations \ {input[r].conversation_id} |->
                    conversations[k]]
           ELSE conversations
    /\ http' = [http EXCEPT ![r] = UnexpectedError(GroqError(e))]
    /\ pc' = [pc EXCEPT ![r] = "done"]
    /\ log' = Append(log, Ended(r, "upstream", e, UnexpectedError(GroqError(e))))
    /\ Return(r)
    /\ UNCHANGED <<body, input, sent, last>>

\* Variant: a failed call is tried a second time before giving up.
CreateFailsRetry(r, e) ==
    /\ pc[r] = "create"
    /\ ncalls' = [ncalls EXCEPT ![r] = @ + 2]
    /\ calls' = calls + 2
    /\ http' = [http EXCEPT ![r] = UnexpectedError(GroqError(e))]
    /\ pc' = [pc EXCEPT ![r] = "done"]
    /\ log' = Append(log, Ended(r, "upstream", e, UnexpectedError(GroqError(e))))
    /\ Return(r)
    /\ UNCHANGED <<conversations, body, input, sent, last>>

\* query_groq_api: client.chat.completions.create(...) raises e.
CreateFails(r, e) ==
    /\ pc[r] = "create"
    /\ ncalls' = [ncalls EXCEPT ![r] = @ + 1]
    /\ calls' = calls + 1
    /\ http' = [http EXCEPT ![r] = UnexpectedError(GroqError(e))]
    /\ pc' = [pc EXCEPT ![r] = "done"]
    /\ log' = Append(log, Ended(r, "upstream", e, UnexpectedError(GroqError(e))))
    /\ Return(r)
    /\ UNCHANGED <<conversations, body, input, sent, last>>

\* query_groq_api: one turn of `for chunk in completion`.
NextChunk(r) ==
    /\ pc[r] = "stream"
    /\ completion[r] # <<>>
    /\ response' = [response EXCEPT ![r] = Accumulate(@, Head(completion[r]))]
    /\ frags' = [frags EXCEPT ![r] = Append(@, Head(completion[r]))]
    /\ completion' = [completion EXCEPT ![r] = Tail(@)]
    /\ UNCHANGED <<conversations, pc, body, input, http, sent, context,
                   ncalls, calls, last, log>>

\* Variant: the text received before the failure is stored as the reply.
StreamFailsKeepsPartial(r, e) ==
    /\ pc[r] = "stream"
    /\ completion[r] # <<>>
    /\ conversations' =
           AppendMessage(conversations, input[r].conversation_id,
                         [role |-> "assistant", content |-> response[r]])
    /\ http' = [http EXCEPT ![r] = UnexpectedError(GroqError(e))]
    /\ pc' = [pc EXCEPT ![r] = "done"]
    /\ log' = Append(log, Ended(r, "upstream", e, UnexpectedError(GroqError(e))))
    /\ Return(r)
    /\ UNCHANGED <<body, input, sent, ncalls, calls, last>>

\* query_groq_api: the stream raises e while it is read.
StreamFails(r, e) ==
    /\ pc[r] = "stream"
    /\ completion[r] # <<>>
    /\ http' = [http EXCEPT ![r] = UnexpectedError(GroqError(e))]
    /\ pc' = [pc EXCEPT ![r] = "done"]
    /\ log' = Append(log, Ended(r, "upstream", e, UnexpectedError(GroqError(e))))
    /\ Return(r)
    /\ UNCHANGED <<conversations, body, input, sent, ncalls, calls, last>>

\* Variant: the reply is returned but not appended to the history.
ChatFinishNoHistory(r) ==
    /\ pc[r] = "stream"
    /\ completion[r] = <<>>
    /\ http' = [http EXCEPT ![r] = ChatResponse(response[r], input[r])]
    /\ pc' = [pc EXCEPT ![r] = "done"]
    /\ log' = Append(log, Ended(r, "ok", "", ChatResponse(response[r], input[r])))
    /\ Return(r)
    /\ UNCHANGED <<conversations, body, input, sent, ncalls, calls, last>>

\* The stream ends: query_groq_api returns, chat appends the assistant entry
\* and returns the response.
ChatFinish(r) ==
    /\ pc[r] = "stream"
    /\ completion[r] = <<>>
    /\ conversations' =
           AppendMessage(conversations, input[r].conversation_id,
                         [role |-> "assistant", content |-> response[r]])
    /\ http' = [http EXCEPT ![r] = ChatResponse(response[r], input[r])]
    /\ pc' = [pc EXCEPT ![r] = "done"]
    /\ log' = Append(log, Ended(r, "ok", "", ChatResponse(response[r], input[r])))
    /\ Return(r)
    /\ UNCHANGED <<body, input, sent, ncalls, calls, last>>

Next ==
    \/ \E r \in Requests, b \in Bodies : Send(r, b)
    \/ \E r \in Requests : Validate(r)
    \/ \E r \in Requests : ChatBegin(r)
    \/ \E r \in Requests : AppendUser(r)
    \/ \E r \in Requests, s \in Streams : CreateCompletion(r, s)
    \/ \E r \in Requests, e \in Errors : CreateFails(r, e)
    \/ \E r \in Requests : NextChunk(r)
    \/ \E r \in Requests, e \in Errors : StreamFails(r, e)
    \/ \E r \in Requests : ChatFinish(r)

Spec == Init /\ [][Next]_vars

(***************************************************************************)
(* Closed sessions.  No code of app.py clears a conversation's `active`    *)
(* flag; the closed-session branch of chat is exercised by setting the     *)
(* attribute from outside, between two requests.                           *)
(***************************************************************************)
SetInactive(k) ==
    /\ InHandler = {}
    /\ k \in DOMAIN conversations
    /\ conversations[k].active
    /\ conversations' = [conversations EXCEPT ![k].active = FALSE]
    /\ UNCHANGED <<pc, body, input, http, sent, locals, ncalls, calls, last, log>>

NextClosed ==
    \/ Next
    \/ \E k \in Keys : SetInactive(k)

SpecClosed == Init /\ [][NextClosed]_vars

(***************************************************************************)
(* Properties                                                              *)
(***************************************************************************)
\* The handler executions on key k that have ended, in order.
OnKey(k) == SelectSeq(log, LAMBDA e : e.input.conversation_id = k)

\* The text a chunk sequence spells: the contents in arrival order, a chunk
\* without content counting as the empty string.
RECURSIVE Joined(_)
Joined(fs) ==
    IF fs = <<>> THEN ""
    ELSE (IF Head(fs).none THEN "" ELSE Head(fs).content) \o Joined(Tail(fs))

\* What a request submitted, read from its body.
Submitted(b) ==
    [role |-> IF "role" \in DOMAIN b THEN b.role.val ELSE "user",
     content |-> b.message.val]

\* The history entries a sequence of ended executions leaves behind.
RECURSIVE Turns(_)
Turns(es) ==
    IF es = <<>> THEN <<>>
    ELSE (CASE Head(es).outcome = "ok" ->
                 << Submitted(Head(es).body),
                    [role |-> "assistant", content |-> Joined(Head(es).frags)] >>
            [] Head(es).outcome = "upstream" -> << Submitted(Head(es).body) >>
            [] OTHER -> << >>)
         \o Turns(Tail(es))

\* s contains sub as a substring.
Contains(s, sub) ==
    \E i \in 1..(Len(s) - Len(sub) + 1) : SubSeq(s, i, i + Len(sub) - 1) = sub

\* The latest handler execution has ended and no other has begun.
AtRest == InHandler = {} /\ last.req # 0 /\ log # <<>>

LastEnded == log[Len(log)]
LastKey == last.input.conversation_id

\* The history of the latest execution's session when the execution began
\* (after get_or_create_conversation).
Before ==
    IF LastKey \in DOMAIN last.pre
    THEN last.pre[LastKey].messages
    ELSE << [role |-> "system", content |-> "You are a useful AI assistant."] >>

\* C1: after N submits on one key, all answered successfully and none
\* overlapping, the key's history is the system entry followed by, for each
\* submit in order, the submitted message and then an assistant entry holding
\* that submit's upstream reply; its length is 1 + 2N.
C1_SuccessfulTurnsAlternate ==
    InHandler = {} =>
        \A k \in DOMAIN conversations :
            LET es == OnKey(k) IN
            (\A i \in 1..Len(es) : es[i].outcome = "ok") =>
                LET ms == conversations[k].messages IN
                /\ Len(ms) = 1 + 2 * Len(es)
                /\ ms[1] = [role |-> "system",
                            content |-> "You are a useful AI assistant."]
                /\ \A i \in 1..Len(es) :
                       /\ ms[2 * i] = Submitted(es[i].body)
                       /\ ms[2 * i + 1] =
                              [role |-> "assistant",
                               content |-> Joined(es[i].frags)]

C1_Witness ==
    /\ InHandler = {}
    /\ \E k \in DOMAIN conversations :
           /\ Len(OnKey(k)) = 2
           /\ \A i \in 1..2 : OnKey(k)[i].outcome = "ok"
           /\ Len(conversations[k].messages) = 5
           /\ OnKey(k)[1].body.message.val # OnKey(k)[2].body.message.val

\* C2: when the upstream call of a submit fails, the answer is a 500 whose
\* detail contains the upstream failure description, and the session's
\* history is the history before the call plus the submitted message: one
\* entry longer, no assistant entry, no rollback.
C2_UpstreamFailureKeepsUserTurn ==
    (AtRest /\ LastEnded.outcome = "upstream") =>
        /\ LastEnded.http.status = 500
        /\ Contains(LastEnded.http.detail, LastEnded.error)
        /\ conversations[LastKey].messages =
               Append(Before, Submitted(last.body))
        /\ Len(conversations[LastKey].messages) = Len(Before) + 1

C2_Witness ==
    /\ AtRest
    /\ LastEnded.outcome = "upstream"
    /\ Len(Before) = 3
    /\ Len(conversations[LastKey].messages) = 4
    /\ LastEnded.http.detail = "500: Error with Groq API: quota"

\* C3: a submit against a session whose active flag is false is answered with
\* the fixed 400 error (not a 500), the session's history and flag are as
\* before, and the collaborator is not invoked.
C3_ClosedSessionRejected ==
    (AtRest /\ LastKey \in DOMAIN last.pre /\ ~last.pre[LastKey].active) =>
        /\ LastEnded.outcome = "closed"
        /\ LastEnded.http =
               [status |-> 400,
                detail |-> "The chat session has ended. Please start a new session."]
        /\ conversations[LastKey] = last.pre[LastKey]
        /\ ~conversations[LastKey].active
        /\ ncalls[last.req] = 0

C3_Witness ==
    /\ AtRest
    /\ LastEnded.outcome = "closed"
    /\ LastEnded.http.status = 400
    /\ Len(conversations[LastKey].messages) = 3
    /\ ~conversations[LastKey].active

\* C4: right after get_or_create_conversation, the dictionary is the one
\* before the call, plus, when the key was absent, that key alone, mapped to
\* a session holding exactly the system entry with active true; sessions
\* already present, the key's own included, are unchanged, and the call
\* leads to no error answer.
C4_GetOrCreate ==
    \A r \in Requests :
        pc[r] = "append" =>
            /\ last.req = r
            /\ http[r] = NoResponse
            /\ DOMAIN conversations = DOMAIN last.pre \cup {LastKey}
            /\ \A k \in DOMAIN last.pre : conversations[k] = last.pre[k]
            /\ LastKey \notin DOMAIN last.pre =>
                   /\ conversations[LastKey].messages =
                          << [role |-> "system",
                              content |-> "You are a useful AI assistant."] >>
                   /\ conversations[LastKey].active = TRUE

C4_Witness ==
    \E r \in Requests :
        /\ pc[r] = "append"
        /\ LastKey \notin DOMAIN last.pre
        /\ last.pre # <<>>
        /\ Len(conversations[LastKey].messages) = 1
        /\ conversations[LastKey].active

\* C5: a request on one key leaves every other key's session (presence,
\* history and flag) as it was when the request's handler began, whatever
\* other requests are in flight; and each session's history holds, after the
\* system entry, exactly the entries of the requests made on its own key.
C5_KeysIsolated ==
    /\ last.req # 0 =>
           \A k \in Keys \ {LastKey} :
               /\ k \in DOMAIN conversations <=> k \in DOMAIN last.pre
               /\ k \in DOMAIN conversations => conversations[k] = last.pre[k]
    /\ InHandler = {} =>
           \A k \in DOMAIN conversations :
               conversations[k].messages
                   = << [role |-> "system",
                         content |-> "You are a useful AI assistant."] >>
                     \o Turns(OnKey(k))

C5_Witness ==
    \E r1, r2 \in Requests :
        /\ pc[r1] = "stream" /\ input[r1].conversation_id = "a"
        /\ frags[r1] # <<>>
        /\ pc[r2] = "validated" /\ input[r2].conversation_id = "b"
        /\ input[r1].message = input[r2].message
        /\ "b" \notin DOMAIN conversations

\* C6: a request whose body fails validation (a required field missing, or a
\* field that is not a string) is answered 422 in the step that takes it up,
\* and that step changes neither the dictionary nor any session nor the
\* number of collaborator invocations.
C6_InvalidRejectedWithoutEffect ==
    [][ \A r \in Requests :
          ( /\ pc[r] = "received"
            /\ pc'[r] # "received"
            /\ \/ "message" \notin DOMAIN body[r]
               \/ "conversation_id" \notin DOMAIN body[r]
               \/ \E f \in DOMAIN body[r] : body[r][f].type # "string" )
          => /\ pc'[r] = "done"
             /\ http'[r].status = 422
             /\ conversations' = conversations
             /\ ncalls' = ncalls
             /\ log' = log ]_vars

C6_Witness ==
    \E r \in Requests :
        /\ pc[r] = "done"
        /\ http[r].status = 422
        /\ "conversation_id" \notin DOMAIN body[r]
        /\ DOMAIN conversations = {"b"}
        /\ ncalls[r] = 0

\* C7: the assistant content stored for a completed stream is the
\* concatenation of the delivered chunks' contents in arrival order (a chunk
\* without content adds nothing), and while chunks are still being read the
\* request has no answer and the history has no entry for the reply.
C7_ChunksConcatenated ==
    /\ (AtRest /\ LastEnded.outcome = "ok") =>
           LET ms == conversations[LastKey].messages IN
           ms[Len(ms)] = [role |-> "assistant",
                          content |-> Joined(LastEnded.frags)]
    /\ \A r \in Requests :
           pc[r] = "stream" =>
               /\ http[r] = NoResponse
               /\ conversations[input[r].conversation_id].messages =
                      Append(Before, Submitted(body[r]))

C7_Witness ==
    /\ AtRest
    /\ LastEnded.outcome = "ok"
    /\ LastEnded.frags = <<Text("Hel"), Text("lo"), Text(" there")>>
    /\ LET ms == conversations[LastKey].messages IN
       ms[Len(ms)].content = "Hello there"

\* C8: in every state the first entry of every session's history is the
\* system prompt.
C8_SystemEntryFirst ==
    \A k \in DOMAIN conversations :
        /\ Len(conversations[k].messages) >= 1
        /\ conversations[k].messages[1] =
               [role |-> "system", content |-> "You are a useful AI assistant."]

C8_Witness ==
    \E k \in DOMAIN conversations :
        /\ Len(conversations[k].messages) = 4
        /\ conversations[k].messages[1].role = "system"
        /\ conversations[k].messages[2].role = "system"
        /\ conversations[k].messages[4].role = "user"

\* C9: starting from the empty dictionary every session is active in every
\* state, and no request is ever answered with the closed-session error.
C9_AlwaysActive ==
    /\ \A k \in DOMAIN conversations : conversations[k].active
    /\ \A r \in Requests : http[r].status # 400
    /\ \A i \in 1..Len(log) : log[i].outcome # "closed"

C9_Witness ==
    /\ DOMAIN conversations = Keys
    /\ \A k \in Keys : conversations[k].active
    /\ Len(log) = 2
    /\ log[1].outcome = "upstream"
    /\ log[2].outcome = "ok"

\* C10: a successful submit answers 200 with the content of the assistant
\* entry it appended, which is the last of the two entries it added, and
\* with the conversation_id of its request.
C10_ResponseIsStoredReply ==
    (AtRest /\ LastEnded.outcome = "ok") =>
        LET ms == conversations[LastKey].messages IN
        /\ LastEnded.http.status = 200
        /\ Len(ms) = Len(Before) + 2
        /\ ms[Len(ms)].role = "assistant"
        /\ LastEnded.http.body.response = ms[Len(ms)].content
        /\ LastEnded.http.body.conversation_id = last.body.conversation_id.val
        /\ (pc[last.req] = "done" /\ body[last.req] = last.body) =>
               http[last.req] = LastEnded.http

C10_Witness ==
    /\ AtRest
    /\ LastEnded.outcome = "ok"
    /\ pc[last.req] = "done"
    /\ http[last.req].status = 200
    /\ http[last.req].body.response = "loHel"
    /\ http[last.req].body.conversation_id = "b"
    /\ last.body.message.val = "hi"

\* The entry a request inside the handler has appended so far to key k's
\* history: its submitted message, once past step 1.
Pending(k) ==
    IF \E r \in InHandler :
           input[r].conversation_id = k /\ pc[r] \in {"create", "stream"}
    THEN << Submitted(body[CHOOSE r \in InHandler :
                               input[r].conversation_id = k]) >>
    ELSE << >>

\* C11 (as claimed): a request's handler is suspended at its upstream call, so
\* a second validated request on the same key may begin its own handler
\* there, interleaving its lookup and appends with the first one's.
C11_HandlersInterleave ==
    \A r1, r2 \in Requests :
        ( /\ r1 # r2
          /\ pc[r1] \in {"create", "stream"}
          /\ pc[r2] = "validated"
          /\ input[r1].conversation_id = input[r2].conversation_id )
        => ENABLED ChatBegin(r2)

\* C11 (amended): at most one request is inside the handler body at a time,
\* so requests on one key never interleave their appends: in every state a
\* session's history is the system entry, then the entries of the ended
\* requests on its key in the order their handlers ran (each reply directly
\* after its own message), then the message of the request now in the
\* handler, if any; nothing is out of order and nothing is lost.
C11_HandlersSerialized ==
    /\ Cardinality(InHandler) <= 1
    /\ \A k \in DOMAIN conversations :
           conversations[k].messages
               = << [role |-> "system",
                     content |-> "You are a useful AI assistant."] >>
                 \o Turns(OnKey(k)) \o Pending(k)

C11_Witness ==
    \E r1, r2 \in Requests :
        /\ r1 # r2
        /\ pc[r1] = "stream" /\ frags[r1] # <<>>
        /\ pc[r2] = "validated"
        /\ input[r1].conversation_id = input[r2].conversation_id
        /\ input[r1].message # input[r2].message

\* C12: a submit that passes validation and the active check invokes the
\* collaborator exactly once, whether the call succeeds or fails; a submit
\* rejected by validation or by the closed-session check invokes it zero
\* times; so the number of invocations made so far is the number of accepted
\* submits that have reached their call.
C12_OneCallPerAcceptedSubmit ==
    /\ \A r \in Requests :
           /\ pc[r] \in {"idle", "received", "validated", "append", "create"}
                  => ncalls[r] = 0
           /\ pc[r] = "stream" => ncalls[r] = 1
           /\ pc[r] = "done" =>
                  ncalls[r] = IF http[r].status \in {200, 500} THEN 1 ELSE 0
    /\ \A i \in 1..Len(log) :
           log[i].outcome \in {"ok", "upstream"} <=>
               log[i].http.status \in {200, 500}
    /\ calls = Cardinality({ i \in 1..Len(log) :
                                 log[i].outcome \in {"ok", "upstream"} })
               + Cardinality({ r \in Requests : pc[r] = "stream" })

C12_Witness ==
    /\ Len(log) = 2
    /\ log[1].outcome = "upstream"
    /\ log[2].outcome = "closed"
    /\ calls = 1
    /\ \E r \in Requests : pc[r] = "done" /\ http[r].status = 400 /\ ncalls[r] = 0
    /\ \E r \in Requests : pc[r] = "done" /\ http[r].status = 500 /\ ncalls[r] = 1

\* C13: a request's submitted message is appended before its collaborator
\* invocation, and the context handed to the collaborator is the session's
\* whole history at that time: the system entry first, every earlier entry
\* in order, and the message this request submitted last.
C13_ContextIsWholeHistory ==
    \A r \in Requests :
        /\ pc[r] = "create" =>
               /\ ncalls[r] = 0
               /\ conversations[input[r].conversation_id].messages
                      = Append(Before, Submitted(body[r]))
        /\ pc[r] = "stream" =>
               /\ context[r] = conversations[input[r].conversation_id].messages
               /\ context[r][1] = [role |-> "system",
                                   content |-> "You are a useful AI assistant."]
               /\ context[r][Len(context[r])] = Submitted(body[r])
               /\ context[r]
                      = << [role |-> "system",
                            content |-> "You are a useful AI assistant."] >>
                        \o Turns(OnKey(input[r].conversation_id))
                        \o << Submitted(body[r]) >>

C13_Witness ==
    \E r \in Requests :
        /\ pc[r] = "stream"
        /\ Len(context[r]) = 4
        /\ context[r][3].role = "assistant"
        /\ context[r][4] = [role |-> "user", content |-> "yo"]

\* C14: histories are append-only: every step leaves every session in the
\* dictionary with its old history as a prefix of the new one, at most one
\* entry longer; and a whole submit extends its session's history by 0
\* (closed session), 1 (upstream failure) or 2 (success) entries.
C14_AppendOnly ==
    [][ /\ \A k \in DOMAIN conversations :
               /\ k \in DOMAIN conversations'
               /\ Len(conversations'[k].messages)
                      \in { Len(conversations[k].messages),
                            Len(conversations[k].messages) + 1 }
               /\ SubSeq(conversations'[k].messages, 1,
                         Len(conversations[k].messages))
                      = conversations[k].messages
        /\ AtRest' =>
               Len(conversations'[LastKey'].messages) - Len(Before')
                   = (CASE LastEnded'.outcome = "ok" -> 2
                        [] LastEnded'.outcome = "upstream" -> 1
                        [] OTHER -> 0)
      ]_vars

C14_Witness ==
    /\ AtRest
    /\ Len(log) = 2
    /\ log[1].outcome = "ok"
    /\ log[2].outcome = "closed"
    /\ log[1].input.conversation_id = log[2].input.conversation_id
    /\ conversations[LastKey].messages = last.pre[LastKey].messages
    /\ Len(conversations[LastKey].messages) = 3

\* C15: the system-role entry inserted at creation is the only system-role
\* entry of a session, whatever role values the callers supply: every
\* session's history holds exactly one entry whose role is "system".
C15_OneSystemEntry ==
    \A k \in DOMAIN conversations :
        Cardinality({ i \in 1..Len(conversations[k].messages) :
                          conversations[k].messages[i].role = "system" }) = 1

\* C16: sessions are never removed: every step keeps every key of the
\* dictionary, with a session whose history and flag continue the old ones;
\* and a key enters the dictionary only in the step in which the handler of a
\* validated request naming that key begins.
C16_KeysOnlyGrow ==
    [][ /\ DOMAIN conversations \subseteq DOMAIN conversations'
        /\ \A k \in DOMAIN conversations :
               /\ Len(conversations'[k].messages)
                      >= Len(conversations[k].messages)
               /\ conversations'[k].active = conversations[k].active
        /\ \A k \in DOMAIN conversations' \ DOMAIN conversations :
               \E r \in Requests :
                   /\ pc[r] = "validated"
                   /\ pc'[r] = "append"
                   /\ DOMAIN body[r] \subseteq {"message", "role", "conversation_id"}
                   /\ {"message", "conversation_id"} \subseteq DOMAIN body[r]
                   /\ \A f \in DOMAIN body[r] : body[r][f].type = "string"
                   /\ body[r].conversation_id.val = k
      ]_vars

C16_Witness ==
    /\ DOMAIN conversations = {"a", "b"}
    /\ Len(conversations["a"].messages) = 2
    /\ Len(conversations["b"].messages) = 3
    /\ \E r \in Requests : pc[r] = "done" /\ http[r].status = 500
                           /\ body[r].conversation_id.val = "a"

\* Among the first i of the executions es, the number that ended with outcome o.
Count(es, i, o) == Cardinality({ j \in 1..i : es[j].outcome = o })

\* The index of the last history entry the i-th of the executions es wrote.
EndOf(es, i) == 1 + 2 * Count(es, i, "ok") + Count(es, i, "upstream")

\* C17: after non-overlapping submits on one key of which S succeeded and F
\* failed upstream, the history has length 1 + 2S + F; every assistant entry
\* is directly preceded by the message of the request that produced it; and
\* a success directly after a failure leaves the two submitted messages next
\* to each other with no assistant entry between them.
C17_LengthCountsOutcomes ==
    InHandler = {} =>
        \A k \in DOMAIN conversations :
            LET es == OnKey(k)
                ms == conversations[k].messages
            IN
            /\ Len(ms) = 1 + 2 * Count(es, Len(es), "ok")
                           + Count(es, Len(es), "upstream")
            /\ \A i \in 1..Len(es) :
                   /\ es[i].outcome = "ok" =>
                          /\ ms[EndOf(es, i)] =
                                 [role |-> "assistant",
                                  content |-> es[i].http.body.response]
                          /\ ms[EndOf(es, i) - 1] = Submitted(es[i].body)
                   /\ es[i].outcome = "upstream" =>
                          ms[EndOf(es, i)] = Submitted(es[i].body)
            /\ \A i \in 1..(Len(es) - 1) :
                   (es[i].outcome = "upstream" /\ es[i + 1].outcome = "ok") =>
                       /\ ms[EndOf(es, i)] = Submitted(es[i].body)
                       /\ ms[EndOf(es, i) + 1] = Submitted(es[i + 1].body)
                       /\ ms[EndOf(es, i) + 2].role = "assistant"

C17_Witness ==
    /\ InHandler = {}
    /\ \E k \in DOMAIN conversations :
           /\ Len(OnKey(k)) = 2
           /\ OnKey(k)[1].outcome = "upstream"
           /\ OnKey(k)[2].outcome = "ok"
           /\ Len(conversations[k].messages) = 4
           /\ conversations[k].messages[2] = [role |-> "user", content |-> "hi"]
           /\ conversations[k].messages[3] = [role |-> "user", content |-> "yo"]
           /\ conversations[k].messages[4].role = "assistant"

\* C18: the session of a never-seen key exists from the moment the handler
\* of a validated submit on it has begun, before anything can fail; when the
\* upstream call of that first submit fails, the answer is a 500 and the key
\* stays in the dictionary with the history [system prompt, submitted
\* message] and active true.
C18_FailedFirstSubmitKeepsSession ==
    /\ \A r \in InHandler :
           /\ input[r].conversation_id \in DOMAIN conversations
           /\ conversations[input[r].conversation_id].active
    /\ (AtRest /\ LastEnded.outcome = "upstream"
               /\ LastKey \notin DOMAIN last.pre) =>
           /\ LastEnded.http.status = 500
           /\ LastKey \in DOMAIN conversations
           /\ conversations[LastKey] =
                  [messages |->
                       << [role |-> "system",
                           content |-> "You are a useful AI assistant."],
                          Submitted(last.body) >>,
                   active |-> TRUE]
           /\ DOMAIN conversations = DOMAIN last.pre \cup {LastKey}

C18_Witness ==
    /\ AtRest
    /\ LastEnded.outcome = "upstream"
    /\ LastKey = "b"
    /\ DOMAIN last.pre = {"a"}
    /\ DOMAIN conversations = {"a", "b"}
    /\ conversations["b"].messages[2] = [role |-> "user", content |-> "yo"]
    /\ pc[last.req] = "done" /\ http[last.req].status = 500

====
